---- MODULE Spec2Model ----
(***************************************************************************)
(* Model of data_preparation.py: the batched, semaphore-bounded fetch      *)
(* pipeline with per-batch CSV checkpoints and the final merge.            *)
(*                                                                         *)
(* Text is a sequence of one-character strings.  Python's None, a missing  *)
(* dict key and pandas' NaN are the reserved one-element sequences PyNone, *)
(* Missing and NaN, which no text equals.                                  *)
(*                                                                         *)
(* asyncio runs one coroutine at a time and switches only at an await, so  *)
(* every action below is the code between two awaits.                      *)
(***************************************************************************)
EXTENDS Integers, Sequences, FiniteSets, TLC

VARIABLES
    list_isbn,        \* the identifier list handed to create_coroutines
    max_n,            \* MAX_RESULTS_PER_QUERY (config)
    max_concurrency,  \* MAX_CONCURRENCY (config)
    run,              \* number of the current execution of __main__
    phase,            \* position of __main__ in the current run
    queries,          \* the query units get_query yielded in this run
    tasks,            \* idx -> position of the task created for query idx
    sem,              \* value of the module-level asyncio.Semaphore
    files,            \* TMP_DATA_PATH: idx -> rows of _part{idx}.csv
    listing,          \* order in which TMP_DATA_PATH.iterdir() yields the files
    output,           \* OUTPUT_DATA: <<>> when absent, else <<rows>>
    nfetch,           \* idx -> number of session.request calls in this run
    outcome,          \* idx -> <<request outcome, end of get_and_write>>
    startFiles,       \* indices of the artifacts present when the run started
    prevOutput,       \* OUTPUT_DATA as the previous run left it
    an_item,          \* the argument of a call of extract_fields on its own
    a_book            \* what that call returned; <<>> before the call

vars == <<list_isbn, max_n, max_concurrency, run, phase, queries, tasks, sem,
          files, listing, output, nfetch, outcome, startFiles, prevOutput,
          an_item, a_book>>

(***************************************************************************)
(* Bounds of the model.                                                    *)
(***************************************************************************)
MaxLen == 3          \* longest identifier list
MaxBatch == 2        \* largest batch size tried
MaxConc == 2         \* largest semaphore size tried
MaxRuns == 2         \* executions of __main__ in a row
MaxPrior == 1        \* artifacts _part0000 .. may be left by earlier work

(***************************************************************************)
(* Python values.                                                          *)
(***************************************************************************)
PyNone == <<"<None>">>
Missing == <<"<missing>">>
NaN == <<"<NaN>">>

Range(s) == {s[i] : i \in 1..Len(s)}
Min(a, b) == IF a < b THEN a ELSE b
Max(a, b) == IF a > b THEN a ELSE b

\* str(x) as DataFrame.astype(str) applies it to a cell
PyStr(x) == IF x = PyNone THEN <<"N", "o", "n", "e">> ELSE x

\* d.get(key, None) for a value that may be missing
Get(v) == IF v = Missing THEN PyNone ELSE v

\* a // b for b # 0: the quotient rounded towards minus infinity
PyFloorDiv(a, b) == IF b > 0 THEN a \div b ELSE (0 - a) \div (0 - b)

\* range(n)
PyRange(n) == 0..(n - 1)

\* s[start:end] for 0 <= start, 0 <= end
PySlice(s, start, end) == SubSeq(s, start + 1, Min(end, Len(s)))

RECURSIVE Join(_, _)
\* sep.join(parts)
Join(sep, parts) ==
    IF parts = <<>> THEN <<>>
    ELSE IF Len(parts) = 1 THEN parts[1]
    ELSE parts[1] \o sep \o Join(sep, Tail(parts))

RECURSIVE Flatten(_)
Flatten(ss) == IF ss = <<>> THEN <<>> ELSE ss[1] \o Flatten(Tail(ss))

DigitChars == {"0", "1", "2", "3", "4", "5", "6", "7", "8", "9"}
\* str.isdigit()
IsDigit(s) == Len(s) > 0 /\ \A i \in 1..Len(s) : s[i] \in DigitChars


(***************************************************************************)
(* Identifiers and query units.                                            *)
(***************************************************************************)
Digits == <<"1", "2", "3", "4", "5", "6", "7", "8", "9">>
\* the k-th identifier of the input: an opaque text
Isbn(k) == <<"9", Digits[k]>>
IsbnList(len) == [k \in 1..len |-> Isbn(k)]

GOOGLE_BOOKS_API == <<"h", "/">>
QPrefix == <<"?q=isbn:">>
QSep == <<"+OR+isbn:">>
QSuffix == <<"&maxResults=40">>

\* ceiling division instead of floor: the trailing partial batch is yielded too
get_query_count_ceil(len, n) == IF n = 0 THEN 0 ELSE Max(0, 0 - PyFloorDiv(0 - len, n))
\* len(list_isbn) // max_n, the number of iterations of range(...)
get_query_count(len, n) == IF n = 0 THEN 0 ELSE Max(0, PyFloorDiv(len, n))

\* get_query raises ZeroDivisionError at its first step
get_query_raises(n) == n = 0

\* the query units get_query yields, in order; unit idx is at position idx + 1
get_query(isbns, n) ==
    [p \in 1..get_query_count(Len(isbns), n) |->
        LET i == p - 1
            start == i * n
            end == n * (1 + i)
        IN GOOGLE_BOOKS_API \o QPrefix \o Join(QSep, PySlice(isbns, start, end))
               \o QSuffix]

RECURSIVE SplitIsbns(_, _, _)
\* the remote side's reading of a query: the identifiers between the separators
SplitIsbns(q, cur, started) ==
    IF q = <<>> THEN <<>>
    ELSE IF Head(q) = "?q=isbn:" THEN SplitIsbns(Tail(q), <<>>, TRUE)
    ELSE IF Head(q) = "+OR+isbn:" THEN <<cur>> \o SplitIsbns(Tail(q), <<>>, TRUE)
    ELSE IF Head(q) = "&maxResults=40" THEN (IF started THEN <<cur>> ELSE <<>>)
    ELSE IF started THEN SplitIsbns(Tail(q), Append(cur, Head(q)), TRUE)
    ELSE SplitIsbns(Tail(q), cur, FALSE)

QueryIsbns(q) == SelectSeq(SplitIsbns(q, <<>>, FALSE), LAMBDA t : t # <<>>)

(***************************************************************************)
(* Record extraction.                                                      *)
(***************************************************************************)
RECURSIVE IsbnLoop_first_wins(_, _)
\* the first entry of a type is kept and later ones do not overwrite it
IsbnLoop_first_wins(ids, acc) ==
    IF ids = <<>> THEN acc
    ELSE LET type_idx == Get(Head(ids).type)
             value_idx == Get(Head(ids).identifier)
         IN IF type_idx = <<"ISBN_10">> /\ acc[1] = PyNone
            THEN IsbnLoop_first_wins(Tail(ids), <<value_idx, acc[2]>>)
            ELSE IF type_idx = <<"ISBN_13">> /\ acc[2] = PyNone
            THEN IsbnLoop_first_wins(Tail(ids), <<acc[1], value_idx>>)
            ELSE IsbnLoop_first_wins(Tail(ids), acc)

RECURSIVE IsbnLoop(_, _)
\* the for loop over industryIdentifiers; acc is <<isbn_10, isbn_13>>
IsbnLoop(ids, acc) ==
    IF ids = <<>> THEN acc
    ELSE LET type_idx == Get(Head(ids).type)
             value_idx == Get(Head(ids).identifier)
         IN IF type_idx = <<"ISBN_10">> THEN IsbnLoop(Tail(ids), <<value_idx, acc[2]>>)
            ELSE IF type_idx = <<"ISBN_13">> THEN IsbnLoop(Tail(ids), <<acc[1], value_idx>>)
            ELSE IsbnLoop(Tail(ids), acc)

\* item.get("volumeInfo", None) is None, and None.get raises AttributeError
extract_fields_raises(item) == ~item.hasVolumeInfo

extract_fields(item) ==
    LET volume_info == item.volumeInfo
        title == Get(volume_info.title)
        subtitle == Get(volume_info.subtitle)
        authors_list == volume_info.authors
        categories_list == volume_info.categories
        thumbnail == Get(volume_info.thumbnail)
        description == Get(volume_info.description)
        published_date == Get(volume_info.publishedDate)
        isbns == IsbnLoop(volume_info.industryIdentifiers, <<PyNone, PyNone>>)
        authors == IF authors_list # <<>> THEN Join(<<";">>, authors_list) ELSE PyNone
        categories == IF categories_list # <<>> THEN Join(<<";">>, categories_list)
                      ELSE PyNone
        published_year ==
            IF published_date # PyNone /\ published_date # <<>> /\ IsDigit(published_date)
            THEN PySlice(published_date, 0, 4) ELSE PyNone
    IN <<isbns[1], isbns[2], title, subtitle, authors, categories, thumbnail,
         description, published_year>>

(***************************************************************************)
(* The Fetcher.  A request is [outcome, items]: what session.request,      *)
(* raise_for_status and response.json() gave, and the "items" of the body  *)
(* (<<>> when the body has none).                                          *)
(***************************************************************************)
\* try: get_info_from_api; the three except clauses return the empty books;
\* the else clause runs extract_fields outside the try
parse_response(req) ==
    IF req.outcome \in {"ClientError", "KeyError", "Exception"}
    THEN [raised |-> FALSE, books |-> <<>>]
    ELSE IF \E i \in 1..Len(req.items) : extract_fields_raises(req.items[i])
    THEN [raised |-> TRUE, books |-> <<>>]
    ELSE [raised |-> FALSE,
          books |-> [i \in 1..Len(req.items) |-> extract_fields(req.items[i])]]

(***************************************************************************)
(* CSV files: a file is its sequence of data rows, each a tuple of nine    *)
(* texts (the header is COLUMNS in every file the program writes).  A file *)
(* whose rows are not nine wide stands for one with other columns: column  *)
(* c <= NCols is COLUMNS[c], a larger number a column not in COLUMNS.      *)
(***************************************************************************)
NCols == 9

\* the header row of a file
Header(rows) ==
    IF rows = <<>> \/ Len(rows[1]) = NCols THEN [c \in 1..NCols |-> c]
    ELSE [c \in 1..Len(rows[1]) |-> NCols + c]

\* DataFrame(response, columns=COLUMNS).astype(COLUMNS).to_csv(path, index=False)
write_to_csv(response) ==
    [i \in 1..Len(response) |-> [c \in 1..NCols |-> PyStr(response[i][c])]]

\* the texts read_csv reads as NaN: na_values="None" and, with
\* keep_default_na=True, pandas' own list (of which these are modelled)
NaValues == {<<>>, <<"N", "o", "n", "e">>, <<"N", "A">>, <<"n", "u", "l", "l">>,
             <<"N", "a", "N">>}

\* header=0: the columns are those of the file's header; dtype=COLUMNS
\* applies to the columns it names and is silent about the others
read_csv(rows) ==
    [i \in 1..Len(rows) |->
        [c \in DOMAIN rows[i] |-> IF rows[i][c] \in NaValues THEN NaN ELSE rows[i][c]]]

\* DataFrame.to_csv(index=False): NaN is written as the empty text
to_csv(frame) ==
    [i \in 1..Len(frame) |->
        [c \in DOMAIN frame[i] |-> IF frame[i][c] = NaN THEN <<>> ELSE frame[i][c]]]

RECURSIVE UnionCols(_, _)
\* the columns of pd.concat(axis=0): those of all frames, in order of appearance
UnionCols(headers, acc) ==
    IF headers = <<>> THEN acc
    ELSE UnionCols(Tail(headers),
                   acc \o SelectSeq(Head(headers), LAMBDA c : c \notin Range(acc)))

\* the rows of one frame under the columns of the concatenation: NaN in the
\* columns the frame does not have
Reindex(header, frame, cols) ==
    IF header = cols THEN frame
    ELSE [i \in 1..Len(frame) |->
            [c \in 1..Len(cols) |->
                IF cols[c] \in Range(header)
                THEN frame[i][CHOOSE k \in 1..Len(header) : header[k] = cols[c]]
                ELSE NaN]]

\* pd.concat(frames_list, axis=0, ignore_index=True)
concat(headers, frames_list) ==
    LET cols == UnionCols(headers, <<>>)
    IN Flatten([k \in 1..Len(frames_list) |-> Reindex(headers[k], frames_list[k], cols)])

\* pd.concat(frames_list) raises ValueError on an empty list
merge_files_raises(dir) == DOMAIN dir = {}

\* the rows merge_files writes when iterdir yields the files in this order
merge_files(dir, csv_files) ==
    to_csv(concat([k \in 1..Len(csv_files) |-> Header(dir[csv_files[k]])],
                  [k \in 1..Len(csv_files) |-> read_csv(dir[csv_files[k]])]))

(***************************************************************************)
(* The remote side: what a request for a query unit can come back with.    *)
(***************************************************************************)
NoVolume ==
    [title |-> Missing, subtitle |-> Missing, authors |-> <<>>, categories |-> <<>>,
     thumbnail |-> Missing, description |-> Missing, publishedDate |-> Missing,
     industryIdentifiers |-> <<>>]

\* the item the API returns for one identifier
ServerItem(isbn, shape) ==
    IF shape = "novol" THEN [hasVolumeInfo |-> FALSE, volumeInfo |-> NoVolume]
    ELSE [hasVolumeInfo |-> TRUE,
          volumeInfo |->
            [NoVolume EXCEPT
                !.title = IF shape = "na" THEN <<"N", "A">> ELSE <<"T">>,
                !.authors = << <<"A">>, <<"B">> >>,
                !.publishedDate = <<"2", "0", "0", "1">>,
                !.industryIdentifiers =
                    << [type |-> <<"ISBN_13">>, identifier |-> isbn] >>]]

RequestOutcomes == {"ok", "ClientError", "Exception"}
Shapes == {"noitems", "full", "na", "novol"}

\* the answer to query q: no "items" key, or one item per identifier asked for
Request(q, out, shape) ==
    [outcome |-> out,
     items |-> IF out # "ok" \/ shape = "noitems" THEN <<>>
               ELSE [k \in 1..Len(QueryIsbns(q)) |-> ServerItem(QueryIsbns(q)[k], shape)]]

\* a failed request has no body
Answers == {a \in RequestOutcomes \X Shapes : a[1] = "ok" \/ a[2] = "noitems"}

\* the artifact an earlier execution left for batch index i
PriorRows(i) == write_to_csv(<<extract_fields(ServerItem(<<"8", Digits[i + 1]>>, "full"))>>)

(***************************************************************************)
(* State.                                                                  *)
(***************************************************************************)
NoOutcome == <<"-", "-">>
Indices == DOMAIN tasks
Ended == phase \in {"done", "merge_failed", "aborted"}

\* only the files of the query units of the current run are listed
Orders_of_run(dir) ==
    LET mine == DOMAIN dir \cap DOMAIN tasks
    IN {o \in [1..Cardinality(mine) -> mine] :
           \A a, b \in 1..Cardinality(mine) : a # b => o[a] # o[b]}
\* the orders iterdir may yield the files of dir in
Orders(dir) ==
    {o \in [1..Cardinality(DOMAIN dir) -> DOMAIN dir] :
        \A a, b \in 1..Cardinality(DOMAIN dir) : a # b => o[a] # o[b]}

Init ==
    /\ list_isbn \in {IsbnList(len) : len \in 0..MaxLen}
    /\ max_n \in (0 - 1)..MaxBatch
    /\ max_concurrency \in 1..MaxConc
    /\ run = 1
    /\ phase = "init"
    /\ queries = <<>>
    /\ tasks = <<>>
    /\ sem = max_concurrency
    /\ \E S \in SUBSET (0..MaxPrior) : files = [i \in S |-> PriorRows(i)]
    /\ listing = <<>>
    /\ output = <<>>
    /\ nfetch = <<>>
    /\ outcome = <<>>
    /\ startFiles = DOMAIN files
    /\ prevOutput = <<>>
    /\ an_item = ServerItem(<<>>, "novol")
    /\ a_book = <<>>

(***************************************************************************)
(* create_coroutines up to its await: the for loop over enumerate(         *)
(* get_query(...)) with the is_file test and create_task.                  *)
(***************************************************************************)
\* the files are numbered by counting only the query units not skipped so far
output_path_of_scheduled(idx) ==
    idx - Cardinality({j \in DOMAIN tasks : j < idx /\ tasks[j] = "skipped"})
\* TMP_DATA_PATH / f"_part{idx:04d}.csv": the file of query unit idx, idx
\* being its position in enumerate(get_query(...))
output_path(idx) == idx

\* an artifact without rows does not count as progress
schedule_unless_empty(dir, idx) ==
    IF idx \in DOMAIN dir /\ dir[idx] # <<>> THEN "skipped" ELSE "waiting"
\* no is_file test: a task for every query unit
schedule_all(dir, idx) == "waiting"
\* output_path.is_file(): skip, else create_task
schedule(dir, idx) == IF idx \in DOMAIN dir THEN "skipped" ELSE "waiting"

create_coroutines ==
    /\ phase = "init"
    /\ IF get_query_raises(max_n)
       THEN /\ phase' = "aborted"
            /\ UNCHANGED <<queries, tasks, nfetch, outcome>>
       ELSE /\ queries' = get_query(list_isbn, max_n)
            /\ tasks' = [idx \in PyRange(Len(queries')) |->
                             schedule(files, output_path(idx))]
            /\ nfetch' = [idx \in PyRange(Len(queries')) |-> 0]
            /\ outcome' = [idx \in PyRange(Len(queries')) |-> NoOutcome]
            /\ phase' = "fetching"
    /\ UNCHANGED <<an_item, a_book, list_isbn, max_n, max_concurrency, run, sem, files, listing,
                   output, startFiles, prevOutput>>

(***************************************************************************)
(* safe_get_and_write.                                                     *)
(***************************************************************************)
\* the semaphore does not block
sem_free_always(value) == TRUE
\* Semaphore.acquire returns at once only while the value is positive
sem_free(value) == value > 0

\* the slot is given back only when get_and_write returns normally
sem_release_on_return(value, end) == IF end = "written" THEN value + 1 ELSE value
\* leaving the async with block, by return or by exception, releases the slot
sem_release(value, end) == value + 1

\* async with sem: ... up to the await of session.request
Acquire(idx) ==
    /\ phase \in {"fetching", "aborting"}
    /\ tasks[idx] = "waiting"
    /\ sem_free(sem)
    /\ sem' = sem - 1
    /\ tasks' = [tasks EXCEPT ![idx] = "fetching"]
    /\ nfetch' = [nfetch EXCEPT ![idx] = @ + 1]
    /\ UNCHANGED <<an_item, a_book, list_isbn, max_n, max_concurrency, run, phase, queries, files,
                   listing, output, outcome, startFiles, prevOutput>>

\* the request of task idx settles: the rest of parse_response, write_to_csv
\* (writable tells whether the file can be written) and the release of sem
Respond(idx, req, writable) ==
    LET res == parse_response(req)
        end == IF res.raised THEN "AttributeError"
               ELSE IF ~writable THEN "OSError" ELSE "written"
    IN /\ phase \in {"fetching", "aborting"}
       /\ tasks[idx] = "fetching"
       /\ sem' = sem_release(sem, end)
       /\ outcome' = [outcome EXCEPT ![idx] = <<req.outcome, end>>]
       /\ IF end = "written"
          THEN /\ files' = [j \in DOMAIN files \cup {output_path(idx)} |->
                               IF j = output_path(idx) THEN write_to_csv(res.books)
                               ELSE files[j]]
               /\ tasks' = [tasks EXCEPT ![idx] = "done"]
               /\ UNCHANGED phase
          ELSE /\ tasks' = [tasks EXCEPT ![idx] = "raised"]
               /\ phase' = "aborting"
               /\ UNCHANGED files
       /\ UNCHANGED <<an_item, a_book, list_isbn, max_n, max_concurrency, run, queries, listing,
                      output, nfetch, startFiles, prevOutput>>

\* await asyncio.gather(*tasks) returns: every task finished without raising
GatherReturns ==
    /\ phase = "fetching"
    /\ \A idx \in Indices : tasks[idx] \in {"skipped", "done"}
    /\ phase' = "settled"
    /\ UNCHANGED <<an_item, a_book, list_isbn, max_n, max_concurrency, run, queries, tasks, sem,
                   files, listing, output, nfetch, outcome, startFiles, prevOutput>>

\* gather re-raised a task's exception: run_until_complete raises, the finally
\* clause closes the loop with the other tasks where they are, and the
\* exception ends __main__ before merge_files
LoopClose ==
    /\ phase = "aborting"
    /\ phase' = "aborted"
    /\ UNCHANGED <<an_item, a_book, list_isbn, max_n, max_concurrency, run, queries, tasks, sem,
                   files, listing, output, nfetch, outcome, startFiles, prevOutput>>

(***************************************************************************)
(* merge_files.  iterdir yields the files in an order the file system      *)
(* chooses; it is the same order as long as the directory does not change. *)
(***************************************************************************)
MergeFiles ==
    /\ phase = "settled"
    /\ IF merge_files_raises(files)
       THEN /\ phase' = "merge_failed"
            /\ UNCHANGED <<output, listing>>
       ELSE /\ \E csv_files \in Orders(files) :
                 /\ Range(listing) = DOMAIN files => csv_files = listing
                 /\ listing' = csv_files
                 /\ output' = <<merge_files(files, csv_files)>>
            /\ phase' = "done"
    /\ UNCHANGED <<an_item, a_book, list_isbn, max_n, max_concurrency, run, queries, tasks, sem,
                   files, nfetch, outcome, startFiles, prevOutput>>

\* the program is started again on the same input and configuration
StartRun ==
    /\ Ended
    /\ run < MaxRuns
    /\ run' = run + 1
    /\ phase' = "init"
    /\ queries' = <<>>
    /\ tasks' = <<>>
    /\ nfetch' = <<>>
    /\ outcome' = <<>>
    /\ sem' = max_concurrency
    /\ startFiles' = DOMAIN files
    /\ prevOutput' = output
    /\ UNCHANGED <<an_item, a_book, list_isbn, max_n, max_concurrency, files, listing, output>>

Next ==
    \/ create_coroutines
    \/ \E idx \in Indices : Acquire(idx)
    \/ \E idx \in Indices : \E a \in Answers : \E writable \in BOOLEAN :
          Respond(idx, Request(queries[idx + 1], a[1], a[2]), writable)
    \/ GatherReturns
    \/ LoopClose
    \/ MergeFiles
    \/ StartRun

Spec == Init /\ [][Next]_vars

(***************************************************************************)
(* extract_fields on its own: one call on an item drawn from Items.        *)
(***************************************************************************)
MaxIds == 2          \* longest industryIdentifiers list

Dates ==
    {Missing, <<>>, <<"2", "0">>, <<"2", "0", "0", "1">>,
     <<"2", "0", "0", "1", "-", "0", "5", "-", "0", "1">>,
     <<"u", "n", "k", "n", "o", "w", "n">>}
IdTypes == {<<"ISBN_10">>, <<"ISBN_13">>, <<"OTHER">>}
IdValues == {<<"X">>, <<"Y">>, Missing}
IdLists ==
    UNION {[1..n -> [type : IdTypes, identifier : IdValues]] : n \in 0..MaxIds}

Items ==
    {ServerItem(<<>>, "novol")} \cup
    {[hasVolumeInfo |-> TRUE,
      volumeInfo |-> [NoVolume EXCEPT !.publishedDate = d, !.industryIdentifiers = ids]] :
        d \in Dates, ids \in IdLists}

Raised == << <<"AttributeError">> >>

InitExtract ==
    /\ list_isbn = <<>>
    /\ max_n = 1
    /\ max_concurrency = 1
    /\ run = 1
    /\ phase = "extract"
    /\ queries = <<>>
    /\ tasks = <<>>
    /\ sem = 1
    /\ files = <<>>
    /\ listing = <<>>
    /\ output = <<>>
    /\ nfetch = <<>>
    /\ outcome = <<>>
    /\ startFiles = {}
    /\ prevOutput = <<>>
    /\ an_item \in Items
    /\ a_book = <<>>

\* the call returns the tuple of nine fields
Extract ==
    /\ phase = "extract"
    /\ a_book = <<>>
    /\ ~extract_fields_raises(an_item)
    /\ a_book' = extract_fields(an_item)
    /\ UNCHANGED <<an_item, list_isbn, max_n, max_concurrency, run, phase, queries, tasks,
                   sem, files, listing, output, nfetch, outcome, startFiles, prevOutput>>

\* the call raises AttributeError
ExtractRaises ==
    /\ phase = "extract"
    /\ a_book = <<>>
    /\ extract_fields_raises(an_item)
    /\ a_book' = Raised
    /\ UNCHANGED <<an_item, list_isbn, max_n, max_concurrency, run, phase, queries, tasks,
                   sem, files, listing, output, nfetch, outcome, startFiles, prevOutput>>

NextExtract == Extract \/ ExtractRaises

SpecExtract == InitExtract /\ [][NextExtract]_vars

(***************************************************************************)
(* Properties.                                                             *)
(***************************************************************************)
\* the batch indices of the input: range(len(list_isbn) // max_n)
AllBatches == PyRange(get_query_count(Len(list_isbn), max_n))
Fetching == {idx \in Indices : tasks[idx] = "fetching"}
Waiting == {idx \in Indices : tasks[idx] = "waiting"}

\* C1: at every moment the number of tasks inside the semaphore-guarded
\* section (request in flight) is at most max_concurrency.
C1_ConcurrencyBound == Cardinality(Fetching) <= max_concurrency

\* C1 witness: the section is full while another task waits for a slot.
C1_Witness ==
    /\ phase = "fetching"
    /\ Cardinality(Fetching) = max_concurrency
    /\ Waiting # {}

\* C2 (as claimed): when a run on a valid batch size has ended and artifacts
\* exist, every batch without an artifact at the start was fetched exactly
\* once, no batch with one was fetched, and the merge has run.
C2_Resumability ==
    (Ended /\ max_n >= 1 /\ DOMAIN files # {}) =>
        /\ \A idx \in Indices : nfetch[idx] = IF idx \in startFiles THEN 0 ELSE 1
        /\ phase = "done"

\* C3 (as claimed): a second run issues no request and leaves the output of
\* the first run.
C3_IdempotenceAsClaimed ==
    run >= 2 =>
        /\ \A idx \in Indices : nfetch[idx] = 0
        /\ Ended => output = prevOutput

\* C3 (amended): a later run that starts with an artifact for every batch of
\* the input issues no request, and when it is done the output file is what
\* the run before it left; a batch that has no artifact when the run starts
\* is scheduled again.
C3_Idempotence ==
    run >= 2 =>
        /\ \A idx \in Indices : idx \notin startFiles => tasks[idx] # "skipped"
        /\ AllBatches \subseteq startFiles =>
              /\ \A idx \in Indices : nfetch[idx] = 0 /\ tasks[idx] = "skipped"
              /\ phase = "done" => output # <<>> /\ output = prevOutput

\* C3 witness: a second run is done, and the first run had fetched and
\* written one of the batches itself.
C3_Witness ==
    /\ run = 2
    /\ phase = "done"
    /\ AllBatches \subseteq startFiles
    /\ \E idx \in AllBatches : files[idx] # PriorRows(idx)

\* the rows of a checkpoint file with the None marker shown as absent
Shown(rows) ==
    [i \in 1..Len(rows) |->
        [c \in 1..NCols |-> IF rows[i][c] = PyStr(PyNone) THEN <<>> ELSE rows[i][c]]]

\* part occurs in whole as a contiguous run of rows
Contains(whole, part) ==
    \E k \in 0..(Len(whole) - Len(part)) : SubSeq(whole, k + 1, k + Len(part)) = part

\* C4 (as claimed): in a run where some request failed with a transport or
\* HTTP error and every other request succeeded, the run ends with the merge
\* done, the failed batch has an artifact with zero rows, and the rows of a
\* successful batch are in the output with their texts unaltered.
C4_FailureIsolation ==
    (/\ Ended
     /\ \E i \in Indices : outcome[i] = <<"ClientError", "written">>
     /\ \A i \in Indices : tasks[i] # "skipped" =>
            outcome[i] \in {<<"ClientError", "written">>, <<"ok", "written">>}) =>
        /\ phase = "done"
        /\ \A i \in Indices :
            /\ outcome[i][1] = "ClientError" => i \in DOMAIN files /\ files[i] = <<>>
            /\ outcome[i][1] = "ok" => Contains(output[1], Shown(files[i]))

\* C5 (as claimed): a run on a valid batch size never ends before merge_files.
C5_AlwaysMerges == max_n >= 1 => phase # "aborted"

\* C6 (as claimed): no exception leaves parse_response.
C6_FetcherTotal == \A idx \in Indices : outcome[idx][2] # "AttributeError"

\* C7 (as claimed): when checkpoint writes fail and nothing else goes wrong,
\* the run ends with the merge done, the failed batches have no artifact and
\* every other scheduled batch has one.
C7_WriteFailureIsolated ==
    (/\ Ended
     /\ \E i \in Indices : outcome[i][2] = "OSError"
     /\ \A i \in Indices : outcome[i][2] # "AttributeError") =>
        /\ phase = "done"
        /\ \A i \in Indices : outcome[i][2] = "OSError" => i \notin DOMAIN files
        /\ \A i \in Indices : outcome[i][2] # "OSError" => i \in DOMAIN files

\* C8 (as claimed): a merge over zero artifacts ends without error and writes
\* an output file with zero data rows.
C8_EmptyMerge ==
    (phase \in {"done", "merge_failed"} /\ max_n >= 1 /\ DOMAIN files = {}) =>
        phase = "done" /\ output = << <<>> >>

\* C9: for a batch size B >= 1 get_query yields floor(L / B) query units, unit
\* i asks for exactly the identifiers [i*B, (i+1)*B) in input order, and the
\* trailing L mod B identifiers are in no unit.
C9_Partition ==
    (phase # "init" /\ max_n >= 1) =>
        /\ Len(queries) = Len(list_isbn) \div max_n
        /\ Indices = PyRange(Len(queries))
        /\ \A i \in PyRange(Len(queries)) :
              QueryIsbns(queries[i + 1]) = [j \in 1..max_n |-> list_isbn[i * max_n + j]]
        /\ \A k \in 1..Len(list_isbn) :
              k > Len(list_isbn) - (Len(list_isbn) % max_n) =>
                  \A p \in 1..Len(queries) : list_isbn[k] \notin Range(QueryIsbns(queries[p]))

\* C9 witness: full batches were yielded and identifiers are left over.
C9_Witness ==
    /\ phase = "fetching"
    /\ max_n >= 1
    /\ Len(queries) >= 1
    /\ Len(list_isbn) % max_n # 0

\* C10 (as claimed): with a batch size <= 0 the run fails in create_coroutines
\* before any batching.
C10_InvalidBatchSize == (max_n <= 0 /\ phase # "init") => phase = "aborted"

\* C14: the free slots and the tasks holding a slot always add up to
\* max_concurrency, whichever way a task left the guarded section (return
\* after a write, after an empty degraded result, or an exception of the
\* extraction or of the write), and when every scheduled task has settled
\* all max_concurrency slots are free.
C14_SlotsReleased ==
    /\ sem + Cardinality(Fetching) = max_concurrency
    /\ (\A idx \in Indices : tasks[idx] \in {"skipped", "done", "raised"}) =>
            sem = max_concurrency

\* C14 witness: all tasks have settled, one by an exception of the
\* extraction, one by a failed write and one after a failed request, and
\* every slot is free.
C14_Witness ==
    /\ \A idx \in Indices : tasks[idx] \in {"skipped", "done", "raised"}
    /\ \E idx \in Indices : outcome[idx][2] = "AttributeError"
    /\ \E idx \in Indices : outcome[idx][2] = "OSError"
    /\ \E idx \in Indices : outcome[idx] = <<"ClientError", "written">>
    /\ sem = max_concurrency

\* C15 (as claimed): merge_files runs or has run only when no scheduled task
\* is waiting for a slot or has its request or write pending, and the fetch
\* phase is never left while a scheduled task is unfinished.
C15_MergeAfterSettled ==
    /\ phase \in {"settled", "done", "merge_failed"} =>
            \A idx \in Indices : tasks[idx] \in {"skipped", "done"}
    /\ phase \notin {"init", "fetching", "aborting"} =>
            \A idx \in Indices : tasks[idx] \notin {"waiting", "fetching"}

\* the request of a task failed (transport or HTTP error, unreadable body)
Degraded(idx) == outcome[idx][1] \in {"ClientError", "Exception"}

\* C16 (as claimed): a batch whose fetch degraded to empty has an artifact
\* with zero rows once its task has ended.
C16_DegradedAsClaimed ==
    \A idx \in Indices :
        (Degraded(idx) /\ tasks[idx] \in {"done", "raised"}) =>
            (idx \in DOMAIN files /\ files[idx] = <<>>)

\* C16 (amended): a batch whose request failed, or whose response has no
\* items, gets an artifact with zero rows unless the write of that artifact
\* fails; a batch with an artifact at the start of a run is skipped and no
\* request is made for it in that run; no batch is requested twice in a run.
C16_DegradedEmpty ==
    \A idx \in Indices :
        /\ (Degraded(idx) /\ outcome[idx][2] = "written") =>
               (idx \in DOMAIN files /\ files[idx] = <<>>)
        /\ parse_response(Request(queries[idx + 1], "ok", "noitems")) =
               [raised |-> FALSE, books |-> <<>>]
        /\ idx \in startFiles => (tasks[idx] = "skipped" /\ nfetch[idx] = 0)
        /\ nfetch[idx] <= 1

\* C16 witness: the second run has ended and skipped, without a request, a
\* batch whose artifact of zero rows the first run wrote after a failed
\* request of its own.
C16_Witness ==
    /\ run = 2
    /\ phase = "done"
    /\ \E idx \in Indices :
          /\ files[idx] = <<>>
          /\ tasks[idx] = "skipped"
          /\ nfetch[idx] = 0

\* C18: a batch that waits for a slot or whose request is in flight has no
\* artifact; the batches of the run with an artifact are exactly the skipped
\* and the finished ones, so when a run stops during the fetch phase the
\* batches left without an artifact are the unfinished ones, and the next
\* run schedules exactly the batches without an artifact.
C18_ArtifactAfterFetch ==
    /\ \A idx \in Indices :
          /\ tasks[idx] \in {"waiting", "fetching"} => idx \notin DOMAIN files
          /\ idx \in DOMAIN files <=> tasks[idx] \in {"skipped", "done"}
    /\ \A idx \in Indices : tasks[idx] # "skipped" <=> idx \notin startFiles

\* C18 witness: the first run stopped with batch 0 written and a later
\* batch unfinished; the second run skips batch 0 and has the request of the
\* unfinished batch in flight, still without an artifact.
C18_Witness ==
    /\ run = 2
    /\ 0 \in Indices /\ tasks[0] = "skipped" /\ files[0] # PriorRows(0)
    /\ \E idx \in Indices :
          /\ idx > 0
          /\ tasks[idx] = "fetching"
          /\ idx \notin DOMAIN files

\* C19: the artifact of a batch is numbered by the batch's position in the
\* input, skipped batches counted: a finished task's artifact is the one of
\* its own index, and an artifact with rows written for index idx holds the
\* records of the identifiers idx*max_n+1 .. (idx+1)*max_n of the input, in
\* that order (so no two tasks wrote the same artifact); the only other
\* artifacts are those left by earlier work before the first run.
C19_IndexByPosition ==
    max_n >= 1 =>
        /\ \A idx \in Indices : tasks[idx] = "done" => idx \in DOMAIN files
        /\ \A idx \in DOMAIN files \cap AllBatches :
              \/ files[idx] = <<>>
              \/ /\ Len(files[idx]) = max_n
                 /\ \A k \in 1..max_n : files[idx][k][2] = list_isbn[idx * max_n + k]
              \/ files[idx] = PriorRows(idx)

\* C19 witness: a task of index above a skipped batch has written an
\* artifact with rows.
C19_Witness ==
    \E idx \in Indices :
        /\ tasks[idx] = "done"
        /\ idx \in DOMAIN files
        /\ files[idx] # <<>>
        /\ \E j \in Indices : j < idx /\ tasks[j] = "skipped"

\* C20: a finished merge took every file of data/tmp once, whatever its
\* index: the output is made of one block per file, the file's rows as
\* read_csv and to_csv render them, and of nothing else, also for files
\* whose index is not a batch of the current run.
C20_MergeOfNamespace ==
    phase = "done" =>
        /\ Range(listing) = DOMAIN files
        /\ Len(listing) = Cardinality(DOMAIN files)
        /\ output[1] = Flatten([k \in 1..Len(listing) |->
                                    to_csv(read_csv(files[listing[k]]))])

\* C20 witness: the run has batches, the merge is done, and the output
\* holds the record of an artifact whose index is not a batch of the run.
C20_Witness ==
    /\ phase = "done"
    /\ AllBatches # {}
    /\ \E i \in DOMAIN files :
          /\ i \notin AllBatches
          /\ files[i] = PriorRows(i)
          /\ Contains(output[1], Shown(files[i]))

(***************************************************************************)
(* merge_files on its own: a run with no identifier goes straight to the   *)
(* merge of whatever data/tmp holds, over whatever OUTPUT_DATA is there.   *)
(***************************************************************************)
MaxMerge == 2        \* data/tmp holds files _part0000 .. _part000<MaxMerge>

\* a file of two records
TwoRows(i) ==
    write_to_csv(<<extract_fields(ServerItem(<<"8", Digits[i + 1]>>, "full")),
                   extract_fields(ServerItem(<<"7", Digits[i + 1]>>, "full"))>>)

\* a .csv file whose header is one column that is not in COLUMNS
Foreign == << <<<<"x">>>> >>

MergeInputs(i) == {<<>>, TwoRows(i), Foreign}

InitMerge ==
    /\ list_isbn = <<>>
    /\ max_n = 1
    /\ max_concurrency = 1
    /\ run = 1
    /\ phase = "settled"
    /\ queries = <<>>
    /\ tasks = <<>>
    /\ sem = 1
    /\ \E S \in SUBSET (0..MaxMerge) :
          \E dir \in [S -> UNION {MergeInputs(i) : i \in S}] :
              /\ \A i \in S : dir[i] \in MergeInputs(i)
              /\ files = dir
    /\ listing = <<>>
    /\ output \in {<<>>, <<PriorRows(0)>>}
    /\ nfetch = <<>>
    /\ outcome = <<>>
    /\ startFiles = DOMAIN files
    /\ prevOutput = output
    /\ an_item = ServerItem(<<>>, "novol")
    /\ a_book = <<>>

SpecMerge == InitMerge /\ [][MergeFiles]_vars

(***************************************************************************)
(* Properties of merge_files (under SpecMerge).                            *)
(***************************************************************************)
Malformed(rows) == rows # <<>> /\ Len(rows[1]) # NCols
WellFormed == \A i \in DOMAIN files : ~Malformed(files[i])

\* the indices of the files of dir in ascending order
ByIndex(dir) ==
    CHOOSE o \in Orders(dir) : \A a, b \in 1..Len(o) : a < b => o[a] < o[b]

\* C12 (as claimed): after a merge of well-formed artifacts the output is
\* the rows of each artifact as one contiguous block in their order in the
\* artifact, one block per artifact and nothing else, and the blocks follow
\* each other by ascending batch index.
C12_MergeByIndex ==
    (phase = "done" /\ WellFormed) =>
        output[1] = Flatten([k \in 1..Cardinality(DOMAIN files) |->
                                Shown(files[ByIndex(files)[k]])])

\* C13 (as claimed): when some artifact's columns are not the schema's,
\* merge_files ends in an error and the output file is as it was before.
C13_MalformedAborts ==
    (phase \in {"done", "merge_failed"} /\ ~WellFormed) =>
        (phase = "merge_failed" /\ output = prevOutput)

(***************************************************************************)
(* Properties of extract_fields (under SpecExtract).                       *)
(***************************************************************************)
Extracted == Len(a_book) = NCols
ItemDate == an_item.volumeInfo.publishedDate
ItemIds == an_item.volumeInfo.industryIdentifiers

\* C11 (as claimed): published_year is the first 4 characters of the
\* published date when those 4 characters are all digits, and absent
\* otherwise ("2001-05-01" gives "2001", "unknown" gives none).
C11_PublishedYear ==
    (Extracted /\ ItemDate # Missing /\ Len(ItemDate) >= 4) =>
        a_book[9] = IF IsDigit(SubSeq(ItemDate, 1, 4)) THEN SubSeq(ItemDate, 1, 4)
                    ELSE PyNone

\* the identifier of the last entry of type t, None when there is none
LastOfType(ids, t) ==
    LET at == {k \in 1..Len(ids) : ids[k].type = t}
    IN IF at = {} THEN PyNone
       ELSE Get(ids[CHOOSE k \in at : \A j \in at : j <= k].identifier)

\* C17: isbn10 is the identifier of the last industry identifier of type
\* ISBN_10 and isbn13 that of the last of type ISBN_13; each is absent when
\* no entry has its type, whatever entries of other types there are.
C17_IsbnFold ==
    Extracted =>
        /\ a_book[1] = LastOfType(ItemIds, <<"ISBN_10">>)
        /\ a_book[2] = LastOfType(ItemIds, <<"ISBN_13">>)

\* C17 witness: a record was extracted from an item with two ISBN_10 entries
\* of different identifiers, and the second one is the isbn10.
C17_Witness ==
    /\ Extracted
    /\ Len(ItemIds) = 2
    /\ ItemIds[1].type = <<"ISBN_10">> /\ ItemIds[2].type = <<"ISBN_10">>
    /\ ItemIds[1].identifier = <<"X">> /\ ItemIds[2].identifier = <<"Y">>
    /\ a_book[1] = <<"Y">>

====
